---- MODULE Spec2Model ----
(***************************************************************************)
(* Model of the per-CPU frequency-capping core of                          *)
(* drivers/thermal/mi_thermal_interface.c: the list of cpufreq_device      *)
(* entries (cpufreq_dev_list), its construction in cpu_thermal_init, the   *)
(* capping entry point cpu_limits_set_level / cpufreq_set_level and the    *)
(* teardown destory_thermal_cpu.                                           *)
(*                                                                         *)
(* The frequency-scaling backend (cpufreq policies, freq_qos requests) is  *)
(* outside the file; it is modelled at its call interface only: a policy   *)
(* handle and frequency table per possible CPU, and one freq_qos request   *)
(* per CPU that can be added, updated and removed.                         *)
(***************************************************************************)
EXTENDS Integers, Sequences, FiniteSets, TLC

VARIABLES
    policyOf,           \* backend: cpu -> lead cpu of its policy, or NoPolicy
    policyTable,        \* backend: lead cpu -> valid entries of policy->freq_table
    dev,                \* the cpufreq_device allocated by loop iteration `cpu`
    cpufreq_dev_list,   \* the list, head first, as entry pointers
    cpufreq_list_lock,  \* holder of the mutex: "free" or "init"
    qos,                \* per_cpu(qos_req, cpu): [active, value]
    phase,              \* module lifecycle: "init", "up", "exit", "gone"
    initp,              \* position of cpu_thermal_init
    exitp,              \* position of destory_thermal_cpu
    caller,             \* position and locals of each cpu_limits_set_level caller
    last,               \* the call that returned most recently
    prev,               \* the call that returned before it
    ncalls,             \* calls of cpu_limits_set_level made so far
    stale,              \* some caller has used an entry after its release
    anyFail,            \* some freq_qos_update_request has failed
    unit                \* the ladder builder and level scan applied to one table

vars == <<policyOf, policyTable, dev, cpufreq_dev_list, cpufreq_list_lock, qos,
          phase, initp, exitp, caller, last, prev, ncalls, stale, anyFail, unit>>

----------------------------------------------------------------------------
(* Bounds of the model *)

NumCpus == 2
NumCallers == 2
MaxCalls == 2
MaxRaw == 3

CPUs == 0 .. (NumCpus - 1)
Callers == 1 .. NumCallers

(* Frequencies (MHz) the backend may report, and ceilings callers may ask for *)
Freqs == {1000, 1500, 2000}
Ceilings == Freqs \cup {0, 500, 1800, 2500}

(* Inputs of the concurrent lifecycle model: a smaller set of the same kind *)
BootTables == {<< >>, <<1000, 2000>>, <<1000, 1000>>}
BootCeilings == {500, 1500, 2500}

(* `freq = -1` in an unsigned int is 4294967295 kHz.  The model counts
   frequencies in MHz, so the scan starts below 4294967 MHz *)
UINT_MAX == 4294967

NoPolicy == -1
ListHead == -1
NoLevel == -1

RECURSIVE SeqsUpTo(_, _)
SeqsUpTo(S, n) ==
    IF n = 0 THEN {<< >>}
    ELSE LET shorter == SeqsUpTo(S, n - 1)
         IN shorter \cup {Append(s, x) : s \in {q \in shorter : Len(q) = n - 1}, x \in S}

RawTables == SeqsUpTo(Freqs, MaxRaw)

----------------------------------------------------------------------------
(* find_next_max and the fill loop of cpu_thermal_init *)

(* Variant: `<=` against the previous maximum *)
IsNextMaxInclusive(frequency, max, prev_max) == frequency > max /\ frequency <= prev_max

IsNextMax(frequency, max, prev_max) == frequency > max /\ frequency < prev_max

RECURSIVE find_next_max_from(_, _, _, _)
find_next_max_from(table, prev_max, pos, max) ==
    IF pos > Len(table) THEN max
    ELSE find_next_max_from(table, prev_max, pos + 1,
            IF IsNextMax(table[pos], max, prev_max) THEN table[pos] ELSE max)

find_next_max(table, prev_max) == find_next_max_from(table, prev_max, 1, 0)

RECURSIVE fill_freq_table(_, _, _, _, _)
fill_freq_table(table, max_level, i, freq, filled) ==
    IF i > max_level THEN filled
    ELSE LET f == find_next_max(table, freq)
         IN fill_freq_table(table, max_level, i + 1, f, Append(filled, f))

(* Variant: slots that would hold the sentinel are left out *)
build_without_sentinel(table, max_level) ==
    SelectSeq(fill_freq_table(table, max_level, 0, UINT_MAX, << >>), LAMBDA f : f # 0)

build_freq_table(table, max_level) ==
    fill_freq_table(table, max_level, 0, UINT_MAX, << >>)

----------------------------------------------------------------------------
(* The level scan of cpu_limits_set_level *)

(* Variant: `>` in place of `>=` *)
LevelMatchesStrict(max_freq, frequency) == max_freq > frequency

LevelMatches(max_freq, frequency) == max_freq >= frequency

RECURSIVE resolve_from(_, _, _, _)
resolve_from(freq_table, max_level, max_freq, level) ==
    IF level > max_level THEN NoLevel
    ELSE IF LevelMatches(max_freq, freq_table[level + 1]) THEN level
    ELSE resolve_from(freq_table, max_level, max_freq, level + 1)

(* Variant: the scan starts at level 1 *)
resolve_after_first(freq_table, max_level, max_freq) ==
    resolve_from(freq_table, max_level, max_freq, 1)

(* Variant: a scan that matched nothing hands on the index it stopped at *)
resolve_past_end(freq_table, max_level, max_freq) ==
    IF resolve_from(freq_table, max_level, max_freq, 0) = NoLevel
    THEN max_level + 1
    ELSE resolve_from(freq_table, max_level, max_freq, 0)

resolve(freq_table, max_level, max_freq) ==
    resolve_from(freq_table, max_level, max_freq, 0)

(* Variant: the comparison with the current state never succeeds *)
NeverSameState(cpufreq_state, state) == FALSE

SameState(cpufreq_state, state) == cpufreq_state = state

----------------------------------------------------------------------------
(* List helpers *)

InList(p) == \E k \in 1 .. Len(cpufreq_dev_list) : cpufreq_dev_list[k] = p

IndexOf(p) == CHOOSE k \in 1 .. Len(cpufreq_dev_list) : cpufreq_dev_list[k] = p

(* node.next of the head or of an entry that is on the list *)
NextOf(p) ==
    IF p = ListHead
    THEN IF Len(cpufreq_dev_list) = 0 THEN ListHead ELSE cpufreq_dev_list[1]
    ELSE IF IndexOf(p) = Len(cpufreq_dev_list) THEN ListHead
         ELSE cpufreq_dev_list[IndexOf(p) + 1]

(* Variant: the walk does not stop when it comes back to the head *)
WalkNextWrap(p) == IF NextOf(p) = ListHead THEN NextOf(ListHead) ELSE NextOf(p)

(* Line 97: the step of list_for_each_entry; ListHead ends the walk *)
WalkNext(p) == NextOf(p)

list_add(p) == <<p>> \o cpufreq_dev_list

list_del(p) == SelectSeq(cpufreq_dev_list, LAMBDA q : q # p)

Freed(p) == dev[p].alloc = "freed"

(* Variant: every entry is handed the request of cpu 0 *)
qos_req_first(p) == 0

(* Lines 135 and 154: the entry made by the loop iteration of cpu p points at
   per_cpu(qos_req, p) *)
qos_req_of(p) == p

(* The entry's request has been removed, or the entry unlinked or freed *)
Released(p) == ~qos[qos_req_of(p)].active \/ ~InList(p) \/ Freed(p)

----------------------------------------------------------------------------
(* Initial state *)

NoDev == [alloc |-> "none", id |-> 0, cpufreq_state |-> 0, max_level |-> 0,
          freq_table |-> << >>, policy |-> NoPolicy]

NoCall == [t |-> 0, cpu |-> 0, max_freq |-> 0, entry |-> ListHead, level |-> NoLevel,
           old |-> 0, issued |-> 0, setret |-> "none", sees |-> "none"]

IdleCaller == [pc |-> "idle", cpu |-> 0, max_freq |-> 0, pos |-> ListHead,
               level |-> NoLevel, old |-> 0]

UnitOff == [pc |-> "off", table |-> << >>, max_level |-> 0, freq_table |-> << >>,
            max_freq |-> 0, level |-> NoLevel]

(* A policy's lead cpu belongs to the policy *)
Topologies ==
    {f \in [CPUs -> CPUs \cup {NoPolicy}] :
        \A c \in CPUs : f[c] # NoPolicy => f[f[c]] = f[c]}

(* Only lead cpus carry a table *)
TablesFor(topology, tables) ==
    {T \in [CPUs -> tables] :
        \A c \in CPUs : (\A d \in CPUs : topology[d] # c) => T[c] = << >>}

(* Nothing allocated, nothing registered, cpu_thermal_init about to run *)
KernelInit ==
    /\ dev = [c \in CPUs |-> NoDev]
    /\ cpufreq_dev_list = << >>
    /\ cpufreq_list_lock = "free"
    /\ qos = [c \in CPUs |-> [active |-> FALSE, value |-> 0]]
    /\ phase = "init"
    /\ initp = [cpu |-> 0, pc |-> "get", ret |-> "none"]
    /\ exitp = [priv |-> ListHead, tmp |-> ListHead, i |-> 1]
    /\ caller = [t \in Callers |-> IdleCaller]
    /\ last = NoCall
    /\ prev = NoCall
    /\ ncalls = 0
    /\ stale = FALSE
    /\ anyFail = FALSE

InitWith(tables) ==
    /\ policyOf \in Topologies
    /\ policyTable \in TablesFor(policyOf, tables)
    /\ KernelInit
    /\ unit = UnitOff

Init == InitWith(BootTables)

----------------------------------------------------------------------------
(* cpu_thermal_init, one step per access to shared state *)

(* `return <error>` from cpu_thermal_init; mi_thermal_interface_init ignores
   the value and goes on, so the module comes up either way *)
InitReturn(code) ==
    /\ initp' = [initp EXCEPT !.pc = "returned", !.ret = code]
    /\ phase' = "up"

(* Lines 135-174: policy lookup, entry count, the two allocations and the
   fill loop; nothing of it is visible to other threads yet *)
InitGet ==
    /\ phase = "init"
    /\ initp.pc = "get"
    /\ LET cpu == initp.cpu
           policy == policyOf[cpu]
           i == IF policy = NoPolicy THEN 0 ELSE Len(policyTable[policy])
           fresh == [alloc |-> "live", id |-> policy, cpufreq_state |-> 0,
                     max_level |-> i - 1, freq_table |-> << >>, policy |-> policy]
       IN IF policy = NoPolicy
          THEN InitReturn("ESRCH") /\ UNCHANGED dev
          ELSE IF i = 0
          THEN InitReturn("ENODEV") /\ UNCHANGED dev
          ELSE \E oom \in {"none", "dev", "table"} :
                 CASE oom = "dev" -> InitReturn("ENOMEM") /\ UNCHANGED dev
                   [] oom = "table" ->
                        /\ InitReturn("ENOMEM")
                        /\ dev' = [dev EXCEPT ![cpu] = fresh]
                   [] OTHER ->
                        /\ dev' = [dev EXCEPT ![cpu] =
                                [fresh EXCEPT !.freq_table =
                                    build_freq_table(policyTable[policy], i - 1)]]
                        /\ initp' = [initp EXCEPT !.pc = "add_request"]
                        /\ UNCHANGED phase
    /\ UNCHANGED <<policyOf, policyTable, cpufreq_dev_list, cpufreq_list_lock, qos,
                   exitp, caller, last, prev, stale, anyFail, ncalls, unit>>

(* Variant: the request is seeded with the last slot of the ladder *)
SeedLast(freq_table) == freq_table[Len(freq_table)]

(* Line 177: the value the request is added with *)
SeedFrequency(freq_table) == freq_table[1]

(* Lines 176-182: freq_qos_add_request seeded with freq_table[0] *)
InitAddRequest ==
    /\ phase = "init"
    /\ initp.pc = "add_request"
    /\ \E ok \in BOOLEAN :
        IF ok
        THEN /\ qos' = [qos EXCEPT ![qos_req_of(initp.cpu)] =
                        [active |-> TRUE, value |-> SeedFrequency(dev[initp.cpu].freq_table)]]
             /\ initp' = [initp EXCEPT !.pc = "lock", !.ret = "ok"]
             /\ UNCHANGED phase
        ELSE /\ InitReturn("EINVAL")
             /\ UNCHANGED qos
    /\ UNCHANGED <<policyOf, policyTable, dev, cpufreq_dev_list, cpufreq_list_lock,
                   exitp, caller, last, prev, stale, anyFail, ncalls, unit>>

(* Line 183 *)
InitLock ==
    /\ phase = "init"
    /\ initp.pc = "lock"
    /\ cpufreq_list_lock = "free"
    /\ cpufreq_list_lock' = "init"
    /\ initp' = [initp EXCEPT !.pc = "list_add"]
    /\ UNCHANGED <<policyOf, policyTable, dev, cpufreq_dev_list, qos, phase, exitp,
                   caller, last, prev, stale, anyFail, ncalls, unit>>

(* Line 184 *)
InitListAdd ==
    /\ phase = "init"
    /\ initp.pc = "list_add"
    /\ cpufreq_dev_list' = list_add(initp.cpu)
    /\ initp' = [initp EXCEPT !.pc = "unlock"]
    /\ UNCHANGED <<policyOf, policyTable, dev, cpufreq_list_lock, qos, phase, exitp,
                   caller, last, prev, stale, anyFail, ncalls, unit>>

(* Lines 185-187: unlock, then the next possible cpu or `return ret` *)
InitUnlock ==
    /\ phase = "init"
    /\ initp.pc = "unlock"
    /\ cpufreq_list_lock' = "free"
    /\ IF initp.cpu + 1 < NumCpus
       THEN /\ initp' = [initp EXCEPT !.cpu = initp.cpu + 1, !.pc = "get"]
            /\ UNCHANGED phase
       ELSE InitReturn(initp.ret)
    /\ UNCHANGED <<policyOf, policyTable, dev, cpufreq_dev_list, qos, exitp, caller,
                   last, prev, stale, anyFail, ncalls, unit>>

----------------------------------------------------------------------------
(* destory_thermal_cpu, called from mi_thermal_interface_exit *)

(* The statements of the loop body, in program order *)
(* Variant: the entry is unlinked before its request is removed *)
ExitOrderUnlinkFirst == <<"list_del", "remove_request", "kfree">>

ExitOrder == <<"remove_request", "list_del", "kfree">>

ExitStepIs(name) == phase = "exit" /\ exitp.priv # ListHead /\ ExitOrder[exitp.i] = name

(* After a statement: the next one, or the next entry (priv = tmp), or the end *)
ExitAdvance(list) ==
    IF exitp.i < Len(ExitOrder)
    THEN /\ exitp' = [exitp EXCEPT !.i = exitp.i + 1]
         /\ UNCHANGED phase
    ELSE LET nxt == exitp.tmp
             k == IF nxt = ListHead THEN 0
                  ELSE CHOOSE j \in 1 .. Len(list) : list[j] = nxt
         IN /\ exitp' = [priv |-> nxt,
                         tmp |-> IF nxt = ListHead \/ k = Len(list) THEN ListHead
                                 ELSE list[k + 1],
                         i |-> 1]
            /\ phase' = IF nxt = ListHead THEN "gone" ELSE "exit"

(* Line 194, loop entry: priv = first entry, tmp = its successor *)
ExitBegin ==
    /\ phase = "up"
    /\ LET first == NextOf(ListHead)
       IN /\ exitp' = [priv |-> first,
                       tmp |-> IF first = ListHead THEN ListHead ELSE NextOf(first),
                       i |-> 1]
          /\ phase' = IF first = ListHead THEN "gone" ELSE "exit"
    /\ UNCHANGED <<policyOf, policyTable, dev, cpufreq_dev_list, cpufreq_list_lock,
                   qos, initp, caller, last, prev, stale, anyFail, ncalls, unit>>

(* Line 195 *)
ExitRemoveRequest ==
    /\ ExitStepIs("remove_request")
    /\ qos' = [qos EXCEPT ![qos_req_of(exitp.priv)].active = FALSE]
    /\ ExitAdvance(cpufreq_dev_list)
    /\ UNCHANGED <<policyOf, policyTable, dev, cpufreq_dev_list, cpufreq_list_lock,
                   initp, caller, last, prev, stale, anyFail, ncalls, unit>>

(* Line 196 *)
ExitListDel ==
    /\ ExitStepIs("list_del")
    /\ cpufreq_dev_list' = list_del(exitp.priv)
    /\ ExitAdvance(list_del(exitp.priv))
    /\ UNCHANGED <<policyOf, policyTable, dev, cpufreq_list_lock, qos, initp, caller,
                   last, prev, stale, anyFail, ncalls, unit>>

(* Lines 197-198 *)
ExitFree ==
    /\ ExitStepIs("kfree")
    /\ dev' = [dev EXCEPT ![exitp.priv].alloc = "freed"]
    /\ ExitAdvance(cpufreq_dev_list)
    /\ UNCHANGED <<policyOf, policyTable, cpufreq_dev_list, cpufreq_list_lock, qos,
                   initp, caller, last, prev, stale, anyFail, ncalls, unit>>

----------------------------------------------------------------------------
(* cpu_limits_set_level and cpufreq_set_level, one step per access to shared
   state.  Neither function takes cpufreq_list_lock. *)

CallRecord(t, setret, issued) ==
    [t |-> t, cpu |-> caller[t].cpu, max_freq |-> caller[t].max_freq,
     entry |-> caller[t].pos, level |-> caller[t].level, old |-> caller[t].old,
     issued |-> issued, setret |-> setret, sees |-> "none"]

(* The call returns; cpu_limits_set_level is void, so whatever
   cpufreq_set_level returned (setret) is dropped and the caller sees nothing *)
Return(t, c, setret, issued) ==
    /\ caller' = [caller EXCEPT ![t] = [c EXCEPT !.pc = "idle"]]
    /\ prev' = last
    /\ last' = [CallRecord(t, setret, issued) EXCEPT
                    !.entry = c.pos, !.level = c.level, !.old = c.old]

(* A read or write through a pointer to a freed entry may fault *)
Oops(t) ==
    /\ caller' = [caller EXCEPT ![t].pc = "oops"]
    /\ UNCHANGED <<last, prev>>

(* Line 92: entry *)
CapCall(t, cpu, max_freq) ==
    /\ caller[t].pc = "idle"
    /\ ncalls < MaxCalls
    /\ ncalls' = ncalls + 1
    /\ caller' = [caller EXCEPT ![t] =
            [pc |-> "walk", cpu |-> cpu, max_freq |-> max_freq, pos |-> ListHead,
             level |-> NoLevel, old |-> 0]]
    /\ UNCHANGED <<policyOf, policyTable, dev, cpufreq_dev_list, cpufreq_list_lock,
                   qos, phase, initp, exitp, last, prev, stale, anyFail, unit>>

(* Lines 97-98: one iteration of list_for_each_entry: follow node.next and
   compare the id.  The next pointer of an entry that list_del has taken off
   the list is LIST_POISON1: following it faults.  When the walk comes back
   to the head no entry has matched and the function returns. *)
CapWalk(t) ==
    /\ caller[t].pc = "walk"
    /\ LET c == caller[t]
           gone == c.pos # ListHead /\ ~InList(c.pos)
           nxt == IF gone THEN ListHead ELSE WalkNext(c.pos)
       IN /\ stale' = (stale \/ gone \/ (nxt # ListHead /\ Released(nxt)))
          /\ IF gone THEN Oops(t)
             ELSE IF nxt = ListHead THEN Return(t, [c EXCEPT !.pos = ListHead], "none", 0)
             ELSE /\ caller' = [caller EXCEPT ![t] =
                        [c EXCEPT !.pos = nxt,
                                  !.pc = IF dev[nxt].id = c.cpu THEN "resolve" ELSE "walk"]]
                  /\ UNCHANGED <<last, prev>>
    /\ UNCHANGED <<policyOf, policyTable, dev, cpufreq_dev_list, cpufreq_list_lock,
                   qos, phase, initp, exitp, anyFail, ncalls, unit>>

(* Lines 99-104: the level scan; it reads max_level and freq_table only *)
CapResolve(t) ==
    /\ caller[t].pc = "resolve"
    /\ LET c == caller[t]
           e == dev[c.pos]
           level == resolve(e.freq_table, e.max_level, c.max_freq)
       IN /\ stale' = (stale \/ Released(c.pos))
          /\ \/ IF level = NoLevel
                THEN Return(t, c, "none", 0)
                ELSE /\ caller' = [caller EXCEPT ![t] = [c EXCEPT !.level = level, !.pc = "check"]]
                     /\ UNCHANGED <<last, prev>>
             \/ Freed(c.pos) /\ Oops(t)
    /\ UNCHANGED <<policyOf, policyTable, dev, cpufreq_dev_list, cpufreq_list_lock,
                   qos, phase, initp, exitp, anyFail, ncalls, unit>>

(* Lines 80-85: the range check and the comparison with the current state *)
CapCheck(t) ==
    /\ caller[t].pc = "check"
    /\ LET c == caller[t]
           e == dev[c.pos]
           seen == [c EXCEPT !.old = e.cpufreq_state]
       IN /\ stale' = (stale \/ Released(c.pos))
          /\ \/ IF c.level > e.max_level
                THEN Return(t, seen, "EINVAL", 0)
                ELSE IF SameState(e.cpufreq_state, c.level)
                THEN Return(t, seen, "same", 0)
                ELSE /\ caller' = [caller EXCEPT ![t] = [seen EXCEPT !.pc = "write"]]
                     /\ UNCHANGED <<last, prev>>
             \/ Freed(c.pos) /\ Oops(t)
    /\ UNCHANGED <<policyOf, policyTable, dev, cpufreq_dev_list, cpufreq_list_lock,
                   qos, phase, initp, exitp, anyFail, ncalls, unit>>

(* Line 87 *)
CapWrite(t) ==
    /\ caller[t].pc = "write"
    /\ LET c == caller[t]
       IN /\ stale' = (stale \/ Released(c.pos))
          /\ \/ /\ dev' = [dev EXCEPT ![c.pos].cpufreq_state = c.level]
                /\ caller' = [caller EXCEPT ![t].pc = "update"]
                /\ UNCHANGED <<last, prev>>
             \/ Freed(c.pos) /\ Oops(t) /\ UNCHANGED dev
    /\ UNCHANGED <<policyOf, policyTable, cpufreq_dev_list, cpufreq_list_lock, qos,
                   phase, initp, exitp, anyFail, ncalls, unit>>

(* freq_qos_update_request as seen from its call: it refuses a request that is
   not active, and may report an error; then the constraint keeps its value *)
UpdateOutcomes(slot) == IF qos[slot].active THEN {"ok", "fail"} ELSE {"fail"}

(* Lines 88-89: the backend call through the entry's qos_req, the request
   of the cpu whose loop iteration made the entry *)
CapUpdate(t) ==
    /\ caller[t].pc = "update"
    /\ LET c == caller[t]
           e == dev[c.pos]
           slot == qos_req_of(c.pos)
       IN /\ stale' = (stale \/ Released(c.pos))
          /\ \/ \E r \in UpdateOutcomes(slot) :
                  /\ qos' = IF r = "ok"
                            THEN [qos EXCEPT ![slot].value = e.freq_table[c.level + 1]]
                            ELSE qos
                  /\ anyFail' = (anyFail \/ r = "fail")
                  /\ Return(t, c, r, 1)
             \/ Freed(c.pos) /\ Oops(t) /\ UNCHANGED <<qos, anyFail>>
    /\ UNCHANGED <<policyOf, policyTable, dev, cpufreq_dev_list, cpufreq_list_lock,
                   phase, initp, exitp, ncalls, unit>>

----------------------------------------------------------------------------
(* Specifications *)

InitStep == InitGet \/ InitAddRequest \/ InitLock \/ InitListAdd \/ InitUnlock

ExitStep == ExitBegin \/ ExitRemoveRequest \/ ExitListDel \/ ExitFree

CapStep(t) == CapWalk(t) \/ CapResolve(t) \/ CapCheck(t) \/ CapWrite(t) \/ CapUpdate(t)

(* Callers are independent threads that may enter at any time *)
Next ==
    \/ InitStep
    \/ ExitStep
    \/ \E t \in Callers :
        \/ \E cpu \in 0 .. NumCpus, max_freq \in BootCeilings : CapCall(t, cpu, max_freq)
        \/ CapStep(t)

Spec == Init /\ [][Next]_vars

(* Sequential runs: initialization, each call and teardown run one at a time *)
AllIdle == \A t \in Callers : caller[t].pc = "idle"

SeqCapCall(t, cpu, max_freq) ==
    /\ AllIdle
    /\ phase \in {"up", "gone"}
    /\ CapCall(t, cpu, max_freq)

SeqExitBegin == AllIdle /\ ExitBegin

NextSeq ==
    \/ InitStep
    \/ SeqExitBegin
    \/ ExitRemoveRequest
    \/ ExitListDel
    \/ ExitFree
    \/ \E t \in Callers :
        \/ \E cpu \in 0 .. NumCpus, max_freq \in BootCeilings : SeqCapCall(t, cpu, max_freq)
        \/ CapStep(t)

SeqSpec == Init /\ [][NextSeq]_vars

(* Concurrent callers that keep running: any number of calls overlap each
   other and initialization; the module is unloaded only while no call is in
   progress, and a call made afterwards finds the list empty *)
LiveCapCall(t, cpu, max_freq) ==
    /\ phase \in {"init", "up", "gone"}
    /\ CapCall(t, cpu, max_freq)

LiveExitBegin == AllIdle /\ ExitBegin

NextLive ==
    \/ InitStep
    \/ LiveExitBegin
    \/ ExitRemoveRequest
    \/ ExitListDel
    \/ ExitFree
    \/ \E t \in Callers :
        \/ \E cpu \in 0 .. NumCpus, max_freq \in BootCeilings : LiveCapCall(t, cpu, max_freq)
        \/ CapStep(t)

Fairness == \A t \in Callers : WF_vars(CapStep(t))

LiveSpec == Init /\ [][NextLive]_vars /\ Fairness

----------------------------------------------------------------------------
(* The ladder builder and the level scan on their own: the fill loop of
   cpu_thermal_init applied to one capability table, then the scan of
   cpu_limits_set_level applied to the result and one requested ceiling *)

LadderInit ==
    /\ policyOf = [c \in CPUs |-> NoPolicy]
    /\ policyTable = [c \in CPUs |-> << >>]
    /\ KernelInit
    /\ unit \in {[UnitOff EXCEPT !.pc = "raw", !.table = tb, !.max_freq = f] :
                    tb \in RawTables, f \in Ceilings}

(* Lines 143-174: count the valid entries, refuse an empty table, fill *)
UnitBuild ==
    /\ unit.pc = "raw"
    /\ LET i == Len(unit.table)
       IN unit' = IF i = 0
                  THEN [unit EXCEPT !.pc = "nodev"]
                  ELSE [unit EXCEPT !.pc = "built", !.max_level = i - 1,
                                    !.freq_table = build_freq_table(unit.table, i - 1)]
    /\ UNCHANGED <<policyOf, policyTable, dev, cpufreq_dev_list, cpufreq_list_lock,
                   qos, phase, initp, exitp, caller, last, prev, ncalls, stale, anyFail>>

(* Lines 99-104 *)
UnitResolve ==
    /\ unit.pc = "built"
    /\ unit' = [unit EXCEPT !.pc = "resolved",
                            !.level = resolve(unit.freq_table, unit.max_level, unit.max_freq)]
    /\ UNCHANGED <<policyOf, policyTable, dev, cpufreq_dev_list, cpufreq_list_lock,
                   qos, phase, initp, exitp, caller, last, prev, ncalls, stale, anyFail>>

LadderNext == UnitBuild \/ UnitResolve

LadderSpec == LadderInit /\ [][LadderNext]_vars

----------------------------------------------------------------------------
(* Properties *)

InCall(t) == caller[t].pc \in {"walk", "resolve", "check", "write", "update"}

(* Every slot of every ladder holds a real frequency.  The statements about
   concurrent calls and about backend failures are tried on such ladders
   only, so that what refutes them does not lean on the sentinel slots. *)
NoSentinelSlot ==
    \A c \in CPUs : \A k \in 1 .. Len(dev[c].freq_table) : dev[c].freq_table[k] # 0

(* C1: for every processor, at most one backend ceiling update is in flight:
   no two calls for the same processor id are both between recording the new
   current level (line 87) and the end of freq_qos_update_request (line 88). *)
C1_OneUpdateInFlight ==
    NoSentinelSlot =>
        \A t, u \in Callers :
            (t # u /\ caller[t].pc = "update" /\ caller[u].pc = "update")
                => caller[t].cpu # caller[u].cpu

(* C2: while every backend update has succeeded and no call for a processor
   is in progress, the ceiling the backend holds for each of its entries is
   the ladder frequency at the entry's recorded current level. *)
C2_QuiescentConsistent ==
    \A p \in CPUs :
        (/\ NoSentinelSlot
         /\ phase \in {"init", "up"}
         /\ InList(p)
         /\ ~anyFail
         /\ \A t \in Callers : InCall(t) => caller[t].cpu # dev[p].id)
            => qos[p].value = dev[p].freq_table[dev[p].cpufreq_state + 1]

(* C3: when the backend update of a call fails, the entry's recorded current
   level is back at the value it had before the call, and the caller is told
   ConstraintApplyFailed.  Stated for sequential runs, after the call. *)
C3_RollbackOnFailure ==
    (NoSentinelSlot /\ AllIdle /\ phase = "up" /\ last.setret = "fail")
        => /\ dev[last.entry].cpufreq_state = last.old
           /\ last.sees = "ConstraintApplyFailed"

(* The valid frequencies of the processor a call names *)
RealFreqs(cpu) ==
    IF cpu \in CPUs /\ policyOf[cpu] # NoPolicy
    THEN {policyTable[policyOf[cpu]][k] : k \in 1 .. Len(policyTable[policyOf[cpu]])}
    ELSE {}

(* C5: a call whose ceiling is below every real frequency of its processor
   finds no level, issues no backend call and leaves the current level alone
   (cpufreq_set_level, the only writer of the level, is not reached). *)
C5_BelowLowestIsNoOp ==
    (/\ last.t # 0
     /\ last.entry # ListHead
     /\ \A f \in RealFreqs(last.cpu) : last.max_freq < f)
        => /\ last.level = NoLevel
           /\ last.issued = 0
           /\ last.setret = "none"

(* C6: in a sequential run a call issues one backend update when the level it
   resolved differs from the entry's current level and none when it is the
   same (or when nothing was resolved); so of two consecutive calls with the
   same arguments the second issues none, and the two issue at most one. *)
C6_OneUpdatePerChange ==
    /\ last.level # NoLevel
            => last.issued = (IF last.level # last.old THEN 1 ELSE 0)
    /\ last.level = NoLevel => last.issued = 0
    /\ (prev.t # 0 /\ prev.cpu = last.cpu /\ prev.max_freq = last.max_freq)
            => (last.issued = 0 /\ prev.issued + last.issued <= 1)

C6_Witness ==
    /\ prev.t # 0
    /\ prev.cpu = last.cpu
    /\ prev.max_freq = last.max_freq
    /\ prev.issued = 1
    /\ last.issued = 0
    /\ last.setret = "same"

(* The ladder the builder has produced, by level *)
Built == unit.pc \in {"built", "resolved"}

Levels == 0 .. unit.max_level

Ladder(i) == unit.freq_table[i + 1]

Distinct == {unit.table[k] : k \in 1 .. Len(unit.table)}

StrictlyDescending(m) == \A i, j \in 0 .. m : i < j => Ladder(i) > Ladder(j)

(* C4: a ceiling that is at least the lowest ladder frequency resolves to the
   smallest index whose frequency is <= the ceiling, which holds the highest
   ladder frequency not above the ceiling; a ceiling above the highest
   frequency resolves to level 0; on [2000,1500,1000], 1800 gives level 1
   and 2500 gives level 0. *)
C4_ResolveHighestNotAbove ==
    (unit.pc = "resolved" /\ unit.max_freq >= Ladder(unit.max_level))
        => /\ unit.level \in Levels
           /\ Ladder(unit.level) <= unit.max_freq
           /\ \A j \in Levels : Ladder(j) <= unit.max_freq
                    => (unit.level <= j /\ Ladder(j) <= Ladder(unit.level))
           /\ unit.max_freq > Ladder(0) => unit.level = 0
           /\ unit.freq_table = <<2000, 1500, 1000>>
                    => /\ unit.max_freq = 1800 => unit.level = 1
                       /\ unit.max_freq = 2500 => unit.level = 0

C4_Witness ==
    /\ unit.pc = "resolved"
    /\ unit.freq_table = <<2000, 1500, 1000>>
    /\ unit.max_freq = 1800
    /\ unit.level = 1

(* C7 as claimed: the ladder built from any non-empty capability table is
   strictly descending, holds exactly the distinct input frequencies, and
   its length (max_level + 1) is the number of distinct values. *)
C7_LadderStrictAndDistinct ==
    Built => /\ StrictlyDescending(unit.max_level)
             /\ {Ladder(i) : i \in Levels} = Distinct
             /\ Len(unit.freq_table) = Cardinality(Distinct)
             /\ unit.max_level + 1 = Cardinality(Distinct)

(* C7 as amended: the ladder has one slot per valid entry (max_level = n - 1);
   its first d slots, d the number of distinct values, are strictly
   descending and hold every distinct input frequency exactly once; the whole
   ladder is strictly descending with length d exactly when no value
   repeats. *)
C7_LadderPrefixStrictAndDistinct ==
    Built => LET d == Cardinality(Distinct)
                 n == Len(unit.table)
             IN /\ Len(unit.freq_table) = n
                /\ unit.max_level = n - 1
                /\ d <= n
                /\ StrictlyDescending(d - 1)
                /\ {Ladder(i) : i \in 0 .. d - 1} = Distinct
                /\ (d = n) <=> (StrictlyDescending(unit.max_level)
                                    /\ Len(unit.freq_table) = d)

C7_Witness ==
    /\ Built
    /\ unit.table = <<1000, 2000, 1000>>
    /\ unit.freq_table = <<2000, 1000, 0>>

(* C8 as claimed: resolving a ceiling equal to ladder[i] yields level i, for
   every valid index i. *)
C8_ResolveOwnFrequency ==
    unit.pc = "resolved"
        => \A i \in Levels : Ladder(i) = unit.max_freq => unit.level = i

(* C8 as amended: resolving a ceiling equal to ladder[i] yields the smallest
   index that holds the same value as ladder[i]; that is i itself whenever
   ladder[i] is a real frequency, and the first sentinel slot when ladder[i]
   is the sentinel 0. *)
C8_ResolveFirstEqualSlot ==
    unit.pc = "resolved"
        => \A i \in Levels : Ladder(i) = unit.max_freq
                => /\ unit.level \in Levels
                   /\ Ladder(unit.level) = Ladder(i)
                   /\ \A j \in Levels : Ladder(j) = Ladder(i) => unit.level <= j
                   /\ Ladder(i) # 0 => unit.level = i

C8_Witness ==
    /\ unit.pc = "resolved"
    /\ unit.freq_table = <<2000, 1500, 1000>>
    /\ unit.max_freq = 1000
    /\ unit.level = 2

(* C9: every access to an entry or to the list is made with
   cpufreq_list_lock held by the thread that makes it, and no call reads or
   updates an entry whose request has been released or that has been taken
   off the list. *)
C9_AccessUnderLock ==
    /\ \A t \in Callers : InCall(t) => cpufreq_list_lock = "caller"
    /\ (phase = "init" /\ initp.pc = "list_add") => cpufreq_list_lock = "init"
    /\ phase = "exit" => cpufreq_list_lock = "exit"
    /\ ~stale

(* C10: in teardown an entry leaves the list only after its request has been
   removed from the backend, the list is empty only when every request has
   been removed, and none is registered once teardown has completed. *)
C10_ReleaseBeforeRemoval ==
    /\ [][\A p \in CPUs : (InList(p) /\ ~InList(p)') => ~qos[p].active]_vars
    /\ []((phase \in {"exit", "gone"} /\ cpufreq_dev_list = << >>)
            => \A c \in CPUs : ~qos[c].active)
    /\ [](phase = "gone" => (cpufreq_dev_list = << >> /\ \A c \in CPUs : ~qos[c].active))

C10_Witness ==
    /\ phase = "gone"
    /\ Cardinality({c \in CPUs : Freed(c)}) >= 2

(* C11: a call for a processor id that has no entry on the list issues no
   backend call and the caller is told UnknownProcessor; after teardown the
   list is empty, so this is the outcome of every call for every id. *)
C11_UnknownProcessorReported ==
    (last.t # 0 /\ last.entry = ListHead)
        => /\ last.issued = 0
           /\ last.sees = "UnknownProcessor"

(* A call that has found the entry of its processor and is working on it *)
Served(t) == caller[t].pc \in {"resolve", "check", "write", "update"}

(* C12: when cpu_thermal_init has returned an error, the module does not go
   on with a partial list: no state has initialization failed, entries for
   only some of the possible cpus on the list, and a call served from it. *)
C12_NoPartialTableServed ==
    ~(/\ initp.pc = "returned"
      /\ initp.ret # "ok"
      /\ phase = "up"
      /\ Len(cpufreq_dev_list) > 0
      /\ Len(cpufreq_dev_list) < NumCpus
      /\ \E t \in Callers : Served(t))

(* The entries on the list whose id is c *)
EntriesOf(c) == {p \in CPUs : InList(p) /\ dev[p].id = c}

(* C13: after a successful cpu_thermal_init, every possible cpu has exactly
   one entry on the list with its id, made for that cpu, with its own ladder
   and its own request, also when cpus share a policy; a call for the cpu
   that found an entry has found that one. *)
C13_OneEntryPerProcessor ==
    (initp.pc = "returned" /\ initp.ret = "ok" /\ phase = "up")
        => /\ \A c \in CPUs : EntriesOf(c) = {c}
           /\ \A c \in CPUs : qos[c].active /\ Len(dev[c].freq_table) > 0
           /\ (last.t # 0 /\ last.cpu \in CPUs) => last.entry = last.cpu

(* C14: a step of a call for processor p changes nothing but the recorded
   level of the entry whose id is p and the value of that entry's request:
   every other entry and request, every ladder and max_level, and the list
   stay as they are, whatever other calls are in progress. *)
C14_NoCrossInterference ==
    [][\A t \in Callers :
         (InCall(t) /\ caller'[t] # caller[t])
            => /\ cpufreq_dev_list' = cpufreq_dev_list
               /\ \A e \in CPUs :
                    /\ dev'[e].freq_table = dev[e].freq_table
                    /\ dev'[e].max_level = dev[e].max_level
                    /\ dev'[e].id = dev[e].id
                    /\ (dev[e].alloc = "none" \/ dev[e].id # caller[t].cpu)
                            => (dev'[e] = dev[e] /\ qos'[e] = qos[e])]_vars

C14_Witness ==
    \E t, u \in Callers :
        /\ caller[t].pc = "update"
        /\ caller[u].pc = "update"
        /\ caller[t].cpu # caller[u].cpu
        /\ caller[t].pos # caller[u].pos
        /\ dev[caller[t].pos].cpufreq_state = caller[t].level
        /\ dev[caller[u].pos].cpufreq_state = caller[u].level

(* C15: between initialization and teardown every entry on the list has
   0 <= cpufreq_state <= max_level and max_level = ladder length - 1 >= 0,
   and no call reaches cpufreq_set_level with a level above max_level, so
   the -EINVAL branch of line 80 is never taken. *)
C15_LevelInRange ==
    phase \in {"init", "up"}
        => /\ \A p \in CPUs : InList(p)
                => /\ dev[p].cpufreq_state >= 0
                   /\ dev[p].cpufreq_state <= dev[p].max_level
                   /\ dev[p].max_level = Len(dev[p].freq_table) - 1
                   /\ dev[p].max_level >= 0
           /\ \A t \in Callers : caller[t].pc \in {"check", "write", "update"}
                => (caller[t].level >= 0 /\ caller[t].level <= dev[caller[t].pos].max_level)
           /\ last.setret # "EINVAL"
           /\ prev.setret # "EINVAL"

C15_Witness ==
    /\ phase = "up"
    /\ last.t # 0
    /\ last.issued = 1
    /\ last.level > 0
    /\ last.level = dev[last.entry].max_level
    /\ dev[last.entry].cpufreq_state = last.level

(* The highest valid frequency of the policy of cpu c *)
HighestFreq(c) ==
    CHOOSE f \in RealFreqs(c) : \A g \in RealFreqs(c) : g <= f

(* C16: at the step that puts an entry on the list, its cpufreq_state is 0,
   its request is already registered with the backend, and the value the
   request holds is ladder[0], the highest frequency of the cpu's policy. *)
C16_InsertedAtTopLevel ==
    [][\A p \in CPUs :
         (~InList(p) /\ InList(p)')
            => /\ qos[qos_req_of(p)].active
               /\ dev'[p].cpufreq_state = 0
               /\ qos'[qos_req_of(p)].active
               /\ qos'[qos_req_of(p)].value = dev'[p].freq_table[1]
               /\ dev'[p].freq_table[1] = HighestFreq(p)]_vars

C16_Witness ==
    /\ initp.pc = "unlock"
    /\ initp.cpu = 1
    /\ cpufreq_dev_list = <<1, 0>>
    /\ dev[1].freq_table = <<2000, 1000>>
    /\ qos[1] = [active |-> TRUE, value |-> 2000]
    /\ dev[0].cpufreq_state = 1

(* C17: under weak fairness of each caller, every call of
   cpu_limits_set_level that has been entered returns, however many calls
   for the same or for different processors overlap it. *)
C17_CapCompletes ==
    \A t \in Callers : InCall(t) ~> (caller[t].pc = "idle")

C17_Witness ==
    \E t, u \in Callers :
        /\ t # u
        /\ caller[t].pc = "idle"
        /\ last.t = t
        /\ last.issued = 1
        /\ caller[u].pc = "update"
        /\ caller[u].cpu = last.cpu
        /\ caller[u].pos = last.entry

(* C18: a capability table with n valid entries of which only d < n are
   distinct is not refused: the ladder gets n slots (max_level = n - 1), the
   first d hold the distinct frequencies in strictly descending order and
   every slot from d to n - 1 holds 0. *)
C18_SentinelFill ==
    LET n == Len(unit.table)
        d == Cardinality(Distinct)
    IN (unit.pc # "raw" /\ unit.pc # "off" /\ d < n)
        => /\ Built
           /\ Len(unit.freq_table) = n
           /\ unit.max_level = n - 1
           /\ \A i \in 0 .. d - 1 : Ladder(i) \in Distinct
           /\ \A f \in Distinct : \E i \in 0 .. d - 1 : Ladder(i) = f
           /\ \A i \in 0 .. d - 2 : Ladder(i) > Ladder(i + 1)
           /\ \A i \in d .. n - 1 : Ladder(i) = 0

C18_Witness ==
    /\ Built
    /\ unit.table = <<1500, 1500, 2000>>
    /\ unit.max_level = 2
    /\ unit.freq_table = <<2000, 1500, 0>>

(* C19: the value a registered request holds, set when the request is added
   or by a call, is always one of the valid frequencies of the policy of its
   cpu; it is never the sentinel 0. *)
C19_OnlyRealCeilings ==
    \A p \in CPUs : qos[p].active
        => /\ qos[p].value \in RealFreqs(p)
           /\ qos[p].value # 0

(* C20: when a call that is the first to return has resolved level L for its
   entry, and every call in progress for the same processor has also resolved
   L, then at its return the entry's request holds ladder[L]; this covers
   the return at line 85.  Stated while the module is up, no backend update
   has failed and every ladder slot holds a real frequency. *)
C20_ReturnMeansApplied ==
    [][\A t \in Callers :
         (/\ caller[t].pc \in {"check", "update"}
          /\ caller'[t].pc = "idle"
          /\ last.t = 0
          /\ phase = "up"
          /\ NoSentinelSlot
          /\ ~anyFail'
          /\ \A u \in Callers :
                (u # t /\ InCall(u) /\ caller[u].cpu = caller[t].cpu)
                    => /\ caller[u].pc \in {"check", "write", "update"}
                       /\ caller[u].level = caller[t].level)
            => qos'[qos_req_of(caller[t].pos)].value
                    = dev'[caller[t].pos].freq_table[caller[t].level + 1]]_vars

====
